---- MODULE Spec2Model ----
(***************************************************************************)
(* Product CRUD core of kykydz/99tech-code-challenge (crud-server).        *)
(*                                                                         *)
(* The repository holds two parallel variants of the same entity /         *)
(* service / repository trio:                                              *)
(*   "numeric" - domain/entities/Product.ts (with the validate() hook),    *)
(*               application/services/ProductService.ts and                *)
(*               TypeOrmProductRepository (number ids);                    *)
(*   "string"  - product.entity (no hook), service/product.service and     *)
(*               TypeOrmBaseRepository (string ids, DTO-shaped create).    *)
(* The variable `variant` fixes which trio a behaviour runs.               *)
(*                                                                         *)
(* Encodings                                                               *)
(*   - a JS string that the code trims or measures (name, description) is  *)
(*     a sequence of one-character strings;                                *)
(*   - an Error message is a sequence of words, so that                    *)
(*     String.prototype.includes is a contiguous-subsequence test;         *)
(*   - a JS number (price, stock) is an integer count of 1/Scale units,    *)
(*     so that Number.isInteger(x) is x % Scale = 0;                       *)
(*   - an optional argument is <<>> (undefined) or <<v>> (provided);       *)
(*   - a JS object is a record; a property that was never assigned is      *)
(*     missing from the record's DOMAIN;                                   *)
(*   - the products table is a function from row id to row.                *)
(* Every service call is cut at its awaits on the repository: a call with  *)
(* one repository operation is one action, updateProduct and deleteProduct *)
(* are two (lookup, then write).                                           *)
(***************************************************************************)
EXTENDS Integers, Sequences, FiniteSets, TLC

VARIABLES variant, clients, db, nextId, clock, call, ncalls, createdIds,
          deleteCount, insertCount, latest, dataSource, dataSources

vars == <<variant, clients, db, nextId, clock, call, ncalls, createdIds,
          deleteCount, insertCount, latest, dataSource, dataSources>>

\* DatabaseConnection: the static field and the DataSource objects built
connVars == <<dataSource, dataSources>>

(***************************************************************************)
(* Bounds                                                                  *)
(***************************************************************************)
MaxId == 2
MaxClock == 1
MaxProcs == 2
MaxCalls == 3
Scale == 2

Procs == 1..MaxProcs

(***************************************************************************)
(* Program constants                                                       *)
(***************************************************************************)
MaxNameLength == 255

(***************************************************************************)
(* Strings                                                                 *)
(***************************************************************************)
IsSpace(c) == c = " "

RECURSIVE TrimStart(_)
TrimStart(s) == IF s # <<>> /\ IsSpace(Head(s)) THEN TrimStart(Tail(s)) ELSE s

RECURSIVE TrimEnd(_)
TrimEnd(s) ==
  IF s # <<>> /\ IsSpace(s[Len(s)]) THEN TrimEnd(SubSeq(s, 1, Len(s) - 1)) ELSE s

trim(s) == TrimEnd(TrimStart(s))

\* an id text that is no numeral but starts with one
MustId == "1must"

\* the parts of a word a substring search can match separately
Pieces(word) == IF word = MustId THEN <<"1", "must">> ELSE <<word>>

RECURSIVE Flatten(_)
Flatten(msg) ==
  IF msg = <<>> THEN <<>> ELSE Pieces(Head(msg)) \o Flatten(Tail(msg))

\* String.prototype.includes on word sequences
includes(msg, needle) ==
  LET text == Flatten(msg)
  IN \E i \in 0..(Len(text) - Len(needle)) :
       \A j \in 1..Len(needle) : text[i + j] = needle[j]

\* Number.isInteger on a count of 1/Scale units
IsInteger(x) == x % Scale = 0

Undefined == <<>>
Some(v) == <<v>>
Null == [null |-> TRUE]
NoError == <<>>

(***************************************************************************)
(* Product entity (numeric variant): validate() and create()               *)
(***************************************************************************)
validate(p) ==
  IF p.name = <<>> \/ Len(trim(p.name)) = 0
    THEN <<"Product", "name", "is", "required">>
  ELSE IF Len(p.name) > MaxNameLength
    THEN <<"Product", "name", "must", "not", "exceed", "255", "characters">>
  ELSE IF p.price < 0
    THEN <<"Product", "price", "must", "be", "greater", "than", "or", "equal", "to", "0">>
  ELSE IF p.stock < 0
    THEN <<"Product", "stock", "must", "be", "greater", "than", "or", "equal", "to", "0">>
  ELSE NoError

ProductCreate(name, description, price, stock) ==
  [name |-> name, description |-> description, price |-> price, stock |-> stock]

(***************************************************************************)
(* Inputs                                                                  *)
(***************************************************************************)
LongName == [i \in 1..(MaxNameLength + 1) |-> "a"]

ValidDto == ProductCreate(<<"a">>, <<"d">>, 3, Scale)

\* the valid DTO, the all-falsy valid DTO, and every one-field deviation
CreateInputs ==
  {ValidDto, ProductCreate(<<"a">>, <<>>, 0, 0)}
  \cup {[ValidDto EXCEPT !.name = n] : n \in {<<>>, <<" ">>, LongName}}
  \cup {[ValidDto EXCEPT !.price = -1]}
  \cup {[ValidDto EXCEPT !.stock = s] : s \in {-Scale, 1}}

UpdateArgs(name, description, price, stock) ==
  [name |-> name, description |-> description, price |-> price, stock |-> stock]

NoArgs == UpdateArgs(Undefined, Undefined, Undefined, Undefined)

\* every subset of the optional arguments with falsy values, and one-field
\* patches with other values
UpdateInputs ==
  [name : {Undefined, Some(<<>>)}, description : {Undefined, Some(<<>>)},
   price : {Undefined, Some(0)}, stock : {Undefined, Some(0)}]
  \cup {[NoArgs EXCEPT !.name = Some(<<"b">>)]}
  \cup {[NoArgs EXCEPT !.price = Some(v)] : v \in {-1, 1}}
  \cup {[NoArgs EXCEPT !.stock = Some(v)] : v \in {-Scale, 1}}

\* ids a caller passes: number ids, or the id text of the URL
IdInputs ==
  IF variant = "numeric" THEN 1..MaxId
  ELSE {ToString(i) : i \in 1..MaxId}

\* `${id}` in a message
IdText(id) == IF variant = "numeric" THEN ToString(id) ELSE id

\* the row id the database compares an id parameter with: a number as it
\* is, a text by the integer it spells (column affinity), none (0) otherwise
RowKey(id) ==
  IF variant = "numeric" THEN id
  ELSE IF \E i \in 1..(MaxId + 1) : ToString(i) = id
    THEN CHOOSE i \in 1..(MaxId + 1) : ToString(i) = id
    ELSE 0

(***************************************************************************)
(* Persistence: Repository<Product>.save / findOne / delete of the ORM     *)
(***************************************************************************)
Columns == {"name", "description", "price", "stock", "createdAt", "updatedAt"}

HasId(e) == "id" \in DOMAIN e

\* @BeforeInsert / @BeforeUpdate: only the numeric entity declares the hook
RunHooks(e) == IF variant = "numeric" THEN validate(e) ELSE NoError

SaveResult(err, newDb, newNextId, e) ==
  [error |-> err, db |-> newDb, nextId |-> newNextId, entity |-> e]

\* INSERT: generated id unless the entity carries one, column defaults
\* (the statement's timestamp) for the date columns the entity lacks
SaveInsert(e, now) ==
  LET err == RunHooks(e)
      id == IF HasId(e) THEN e.id ELSE nextId
      row == [id |-> id, name |-> e.name, description |-> e.description,
              price |-> e.price, stock |-> e.stock,
              createdAt |-> IF "createdAt" \in DOMAIN e THEN e.createdAt ELSE now,
              updatedAt |-> IF "updatedAt" \in DOMAIN e THEN e.updatedAt ELSE now]
  IN IF err # NoError THEN SaveResult(err, db, nextId, e)
     ELSE SaveResult(NoError, db @@ (id :> row),
                     IF id >= nextId THEN id + 1 ELSE nextId, row)

\* slip: the row is written before the hook's error is raised
SaveUpdateWritesInvalid(e, now) ==
  LET row == db[e.id]
      changed == {c \in Columns \cap DOMAIN e : e[c] # row[c]}
      err == RunHooks(e)
      merged == [c \in DOMAIN row |-> IF c \in changed THEN e[c] ELSE row[c]]
      newRow == IF "updatedAt" \in changed THEN merged
                ELSE [merged EXCEPT !.updatedAt = now]
  IN IF changed = {} THEN SaveResult(NoError, db, nextId, e)
     ELSE SaveResult(err, [db EXCEPT ![e.id] = newRow], nextId,
                     [c \in DOMAIN e |-> IF c = "updatedAt" THEN newRow.updatedAt ELSE e[c]])

\* slip: the UPDATE stamps createdAt as well
SaveUpdateStampsCreatedAt(e, now) ==
  LET row == db[e.id]
      changed == {c \in Columns \cap DOMAIN e : e[c] # row[c]}
      err == RunHooks(e)
      newRow == [c \in DOMAIN row |->
                   IF c \in {"createdAt", "updatedAt"} THEN now
                   ELSE IF c \in changed THEN e[c] ELSE row[c]]
  IN IF changed = {} THEN SaveResult(NoError, db, nextId, e)
     ELSE IF err # NoError THEN SaveResult(err, db, nextId, e)
     ELSE SaveResult(NoError, [db EXCEPT ![e.id] = newRow], nextId, newRow)

\* UPDATE of the changed columns; updatedAt is refreshed by the statement
SaveUpdate(e, now) ==
  LET row == db[e.id]
      changed == {c \in Columns \cap DOMAIN e : e[c] # row[c]}
      err == RunHooks(e)
      merged == [c \in DOMAIN row |-> IF c \in changed THEN e[c] ELSE row[c]]
      newRow == IF "updatedAt" \in changed THEN merged
                ELSE [merged EXCEPT !.updatedAt = now]
  IN IF changed = {} THEN SaveResult(NoError, db, nextId, e)
     ELSE IF err # NoError THEN SaveResult(err, db, nextId, e)
     ELSE SaveResult(NoError, [db EXCEPT ![e.id] = newRow], nextId,
                     [c \in DOMAIN e |-> IF c = "updatedAt" THEN newRow.updatedAt ELSE e[c]])

save(e, now) ==
  IF HasId(e) /\ e.id \in DOMAIN db THEN SaveUpdate(e, now) ELSE SaveInsert(e, now)

(***************************************************************************)
(* Repository adapters                                                     *)
(***************************************************************************)
create(product, now) == save(product, now)

\* slip: findOne without the where clause returns the first row
findByIdNoWhere(id) ==
  IF DOMAIN db # {} THEN db[CHOOSE k \in DOMAIN db : \A j \in DOMAIN db : k <= j]
  ELSE Null

findById(id) == IF RowKey(id) \in DOMAIN db THEN db[RowKey(id)] ELSE Null

update(product, now) ==
  IF variant = "numeric" /\ (~HasId(product) \/ product.id = 0)
    THEN SaveResult(<<"Product", "ID", "is", "required", "for", "update">>,
                    db, nextId, product)
    ELSE save(product, now)

\* slip: reports the row as removed without removing it
deleteKeepsRow(id) == [db |-> db, ret |-> RowKey(id) \in DOMAIN db]

\* slip: reports a row as removed whether or not one was
deleteAlwaysAffected(id) ==
  [db |-> [k \in DOMAIN db \ {RowKey(id)} |-> db[k]], ret |-> TRUE]

\* returns [db, ret]: the table without the row, and affected > 0
delete(id) ==
  [db |-> [k \in DOMAIN db \ {RowKey(id)} |-> db[k]],
   ret |-> RowKey(id) \in DOMAIN db]

(***************************************************************************)
(* Product service                                                         *)
(***************************************************************************)
\* slip: the message without the id
NotFoundMessageNoId(id) == <<"Product", "not", "found">>

NotFoundMessage(id) == <<"Product", "with", "ID", IdText(id), "not", "found">>

DeleteFailedMessage(id) ==
  <<"Failed", "to", "delete", "product", "with", "ID", IdText(id)>>

\* lookup-or-fail: ret is what the repository returned
getProductById(id) ==
  LET product == findById(id)
  IN [ret |-> product,
      error |-> IF product = Null THEN NotFoundMessage(id) ELSE NoError]

\* slip: `if (x)` in place of `if (x !== undefined)`
MergeFieldsTruthy(existingProduct, args) ==
  [existingProduct EXCEPT
     !.name = IF args.name # Undefined /\ args.name[1] # <<>> THEN args.name[1] ELSE @,
     !.description = IF args.description # Undefined /\ args.description[1] # <<>>
                     THEN args.description[1] ELSE @,
     !.price = IF args.price # Undefined /\ args.price[1] # 0 THEN args.price[1] ELSE @,
     !.stock = IF args.stock # Undefined /\ args.stock[1] # 0 THEN args.stock[1] ELSE @]

\* slip: the stock line copied from the price line
MergeFieldsStockFromPrice(existingProduct, args) ==
  [existingProduct EXCEPT
     !.name = IF args.name # Undefined THEN args.name[1] ELSE @,
     !.description = IF args.description # Undefined THEN args.description[1] ELSE @,
     !.price = IF args.price # Undefined THEN args.price[1] ELSE @,
     !.stock = IF args.price # Undefined THEN args.price[1] ELSE @]

\* "Update fields if provided"
MergeFields(existingProduct, args) ==
  [existingProduct EXCEPT
     !.name = IF args.name # Undefined THEN args.name[1] ELSE @,
     !.description = IF args.description # Undefined THEN args.description[1] ELSE @,
     !.price = IF args.price # Undefined THEN args.price[1] ELSE @,
     !.stock = IF args.stock # Undefined THEN args.stock[1] ELSE @]

\* the object createProduct hands to repository.create; the string-id
\* service reads the clock twice (created, then updated)
NewProduct(dto, created, updated) ==
  IF variant = "numeric"
    THEN ProductCreate(dto.name, dto.description, dto.price, dto.stock)
    ELSE [name |-> dto.name, description |-> dto.description,
          price |-> dto.price, stock |-> dto.stock,
          createdAt |-> created, updatedAt |-> updated]

(***************************************************************************)
(* HTTP adapter: controller status and errorHandler                        *)
(***************************************************************************)
\* slip: the not-found branch left out
errorHandlerNoNotFound(message) ==
  IF includes(message, <<"required">>) \/ includes(message, <<"must">>) THEN 400
  ELSE 500

errorHandler(message) ==
  IF includes(message, <<"required">>) \/ includes(message, <<"must">>) THEN 400
  ELSE IF includes(message, <<"not", "found">>) THEN 404
  ELSE 500

\* the status the controller's handler answers a finished service call with
HttpStatus(c) ==
  IF c.error = NoError THEN (IF c.op = "create" THEN 201 ELSE 200)
  ELSE errorHandler(c.error)

\* the errors array of the POST body validator (empty: next() is called)
validateCreateProduct(body) ==
  (IF body.name = <<>> \/ Len(trim(body.name)) = 0
     THEN << <<"Name", "is", "required", "and", "must", "be", "a",
               "non-empty", "string">> >>
     ELSE <<>>)
  \o (IF body.price < 0
        THEN << <<"Price", "is", "required", "and", "must", "be", "a",
                  "non-negative", "number">> >>
        ELSE <<>>)
  \o (IF body.stock < 0 \/ ~IsInteger(body.stock)
        THEN << <<"Stock", "is", "required", "and", "must", "be", "a",
                  "non-negative", "integer">> >>
        ELSE <<>>)

\* the errors array of the PUT body validator
validateUpdateProduct(body) ==
  (IF body.name # Undefined /\ Len(trim(body.name[1])) = 0
     THEN << <<"Name", "must", "be", "a", "non-empty", "string", "if",
               "provided">> >>
     ELSE <<>>)
  \o (IF body.price # Undefined /\ body.price[1] < 0
        THEN << <<"Price", "must", "be", "a", "non-negative", "number", "if",
                  "provided">> >>
        ELSE <<>>)
  \o (IF body.stock # Undefined
          /\ (body.stock[1] < 0 \/ ~IsInteger(body.stock[1]))
        THEN << <<"Stock", "must", "be", "a", "non-negative", "integer", "if",
                  "provided">> >>
        ELSE <<>>)

NaN == -1

\* parseInt(text, 10): the number the leading numeral spells
ParseInt(text) ==
  LET numeral == Head(Pieces(text))
  IN IF \E i \in 1..(MaxId + 1) : ToString(i) = numeral
       THEN CHOOSE i \in 1..(MaxId + 1) : ToString(i) = numeral
       ELSE NaN

\* TRUE when next() is called
validateProductId(text) == ~(ParseInt(text) = NaN \/ ParseInt(text) <= 0)

\* the id a controller passes to its service for req.params.id
ControllerId(text) == IF variant = "numeric" THEN ParseInt(text) ELSE text

(***************************************************************************)
(* State machine                                                           *)
(***************************************************************************)
Idle == [pc |-> "idle"]

CanBegin(p) == p \in clients /\ call[p].pc \in {"idle", "done"} /\ ncalls < MaxCalls

\* ids whose deleteProduct has returned without error
DeletedIds == {k \in DOMAIN deleteCount : deleteCount[k] > 0}

\* what a call remembers from its start: the table, and the ids created
\* and deleted so far
Begun == [pre |-> db, createdBefore |-> createdIds, deletedBefore |-> DeletedIds]

\* a call that finished in the step that started it
Done(op, id, args, error, value, trace) ==
  [pc |-> "done", op |-> op, id |-> id, args |-> args, error |-> error,
   value |-> value, trace |-> trace] @@ Begun

\* insertCount after a write that leaves the table newDb: one more for
\* every row id that was not stored and now is
Inserted(newDb) ==
  [k \in DOMAIN insertCount |->
     insertCount[k] + (IF k \in DOMAIN newDb /\ k \notin DOMAIN db THEN 1 ELSE 0)]

\* latest after a create or update with result r: the field values the
\* call returned, under the product's id
LatestAfter(r) ==
  IF r.error = NoError
    THEN (r.entity.id :>
            [f \in {"name", "description", "price", "stock"} |-> r.entity[f]])
         @@ latest
    ELSE latest

InitCommon ==
  /\ variant \in {"numeric", "string"}
  /\ db = <<>>
  /\ nextId = 1
  /\ clock = 0
  /\ call = [p \in Procs |-> Idle]
  /\ ncalls = 0
  /\ createdIds = {}
  /\ deleteCount = [i \in 1..MaxId |-> 0]
  /\ insertCount = [i \in 1..MaxId |-> 0]
  /\ latest = <<>>
  /\ dataSource = 0
  /\ dataSources = <<>>

\* one caller: each service call runs to completion before the next starts
Init == InitCommon /\ clients = {1}

\* several callers: calls interleave at their awaits
ConcInit == InitCommon /\ clients = Procs

Tick ==
  /\ clock < MaxClock
  /\ clock' = clock + 1
  /\ UNCHANGED <<variant, clients, ncalls, db, nextId, call, createdIds, deleteCount,
                 insertCount, latest, connVars>>

CreateProduct(p, dto) ==
  /\ CanBegin(p)
  /\ \E d \in 0..(IF variant = "numeric" THEN 0 ELSE 1) :
       /\ clock + d <= MaxClock
       /\ LET r == create(NewProduct(dto, clock, clock + d), clock + d)
          IN /\ r.error # NoError \/ nextId <= MaxId
             /\ db' = r.db
             /\ nextId' = r.nextId
             /\ insertCount' = Inserted(r.db)
             /\ latest' = LatestAfter(r)
             /\ clock' = clock + d
             /\ call' = [call EXCEPT ![p] =
                  Done("create", 0, dto, r.error,
                       IF r.error = NoError THEN r.entity ELSE Null,
                       <<"create">>) @@ [thrown |-> r.error]]
             /\ createdIds' = IF r.error = NoError
                              THEN createdIds \cup {r.entity.id} ELSE createdIds
  /\ ncalls' = ncalls + 1
  /\ UNCHANGED <<variant, clients, deleteCount, connVars>>

GetProductById(p, id) ==
  /\ CanBegin(p)
  /\ LET r == getProductById(id)
     IN call' = [call EXCEPT ![p] =
          Done("get", id, NoArgs, r.error, r.ret, <<"findById">>)]
  /\ ncalls' = ncalls + 1
  /\ UNCHANGED <<variant, clients, db, nextId, clock, createdIds, deleteCount,
                 insertCount, latest, connVars>>

UpdateProductLookup(p, id, args) ==
  /\ CanBegin(p)
  /\ LET r == getProductById(id)
     IN call' = [call EXCEPT ![p] =
          IF r.error # NoError
            THEN Done("update", id, args, r.error, Null, <<"findById">>)
            ELSE [pc |-> "update_save", op |-> "update", id |-> id, args |-> args,
                  fetched |-> r.ret, existingProduct |-> MergeFields(r.ret, args),
                  trace |-> <<"findById">>] @@ Begun]
  /\ ncalls' = ncalls + 1
  /\ UNCHANGED <<variant, clients, db, nextId, clock, createdIds, deleteCount,
                 insertCount, latest, connVars>>

\* slip: merges the arguments into the row as it is stored at save time
UpdateProductSaveRefetch(p) ==
  /\ call[p].pc = "update_save"
  /\ LET c == call[p]
         fresh == IF RowKey(c.id) \in DOMAIN db
                    THEN MergeFields(db[RowKey(c.id)], c.args)
                    ELSE c.existingProduct
         r == update(fresh, clock)
     IN /\ db' = r.db
        /\ nextId' = r.nextId
        /\ insertCount' = Inserted(r.db)
        /\ latest' = LatestAfter(r)
        /\ call' = [call EXCEPT ![p] =
             [c EXCEPT !.pc = "done", !.trace = Append(c.trace, "update")]
             @@ [error |-> r.error,
                 value |-> IF r.error = NoError THEN r.entity ELSE Null,
                 updateArg |-> fresh]]
  /\ UNCHANGED <<variant, clients, ncalls, clock, createdIds, deleteCount, connVars>>

UpdateProductSave(p) ==
  /\ call[p].pc = "update_save"
  /\ LET c == call[p]
         r == update(c.existingProduct, clock)
     IN /\ db' = r.db
        /\ nextId' = r.nextId
        /\ insertCount' = Inserted(r.db)
        /\ latest' = LatestAfter(r)
        /\ call' = [call EXCEPT ![p] =
             [c EXCEPT !.pc = "done", !.trace = Append(c.trace, "update")]
             @@ [error |-> r.error,
                 value |-> IF r.error = NoError THEN r.entity ELSE Null,
                 updateArg |-> c.existingProduct, thrown |-> r.error]]
  /\ UNCHANGED <<variant, clients, ncalls, clock, createdIds, deleteCount, connVars>>

\* slip: no existence check before the delete
DeleteProductNoLookup(p, id) ==
  /\ CanBegin(p)
  /\ call' = [call EXCEPT ![p] =
       [pc |-> "delete_delete", op |-> "delete", id |-> id,
        args |-> NoArgs, trace |-> <<>>] @@ Begun]
  /\ ncalls' = ncalls + 1
  /\ UNCHANGED <<variant, clients, db, nextId, clock, createdIds, deleteCount,
                 insertCount, latest, connVars>>

DeleteProductLookup(p, id) ==
  /\ CanBegin(p)
  /\ LET r == getProductById(id)
     IN call' = [call EXCEPT ![p] =
          IF r.error # NoError
            THEN Done("delete", id, NoArgs, r.error, Null, <<"findById">>)
            ELSE [pc |-> "delete_delete", op |-> "delete", id |-> id,
                  args |-> NoArgs, trace |-> <<"findById">>] @@ Begun]
  /\ ncalls' = ncalls + 1
  /\ UNCHANGED <<variant, clients, db, nextId, clock, createdIds, deleteCount,
                 insertCount, latest, connVars>>

DeleteProductDelete(p) ==
  /\ call[p].pc = "delete_delete"
  /\ LET c == call[p]
         r == delete(c.id)
     IN /\ db' = r.db
        /\ call' = [call EXCEPT ![p] =
             [c EXCEPT !.pc = "done", !.trace = Append(c.trace, "delete")]
             @@ [error |-> IF r.ret THEN NoError ELSE DeleteFailedMessage(c.id),
                 value |-> Null]]
        /\ deleteCount' = IF r.ret
             THEN [deleteCount EXCEPT ![RowKey(c.id)] = @ + 1] ELSE deleteCount
        /\ latest' = [k \in DOMAIN latest \ {RowKey(c.id)} |-> latest[k]]
  /\ UNCHANGED <<variant, clients, ncalls, nextId, clock, createdIds, insertCount, connVars>>

\* slip: the listing leaves out the row with the highest id
findAllSkipsNewest ==
  LET kept == {k \in DOMAIN db : \E j \in DOMAIN db : j > k}
      n == Cardinality(kept)
      perms == {s \in [1..n -> kept] : \A i, j \in 1..n : i < j => s[i] < s[j]}
  IN {[i \in 1..n |-> db[s[i]]] : s \in perms}

\* findAll: ORDER BY createdAt DESC in the numeric repository (rows with
\* equal createdAt in either order), no ORDER BY in the base repository
\* (table order, by row id)
findAll ==
  LET n == Cardinality(DOMAIN db)
      perms == {s \in [1..n -> DOMAIN db] : \A i, j \in 1..n : i # j => s[i] # s[j]}
  IN IF variant = "numeric"
       THEN {[i \in 1..n |-> db[s[i]]] : s \in
               {t \in perms : \A i, j \in 1..n :
                  i < j => db[t[i]].createdAt >= db[t[j]].createdAt}}
       ELSE {[i \in 1..n |-> db[s[i]]] : s \in
               {t \in perms : \A i, j \in 1..n : i < j => t[i] < t[j]}}

GetAllProducts(p) ==
  /\ CanBegin(p)
  /\ \E products \in findAll :
       call' = [call EXCEPT ![p] =
         Done("getAll", 0, NoArgs, NoError, products, <<"findAll">>)]
  /\ ncalls' = ncalls + 1
  /\ UNCHANGED <<variant, clients, db, nextId, clock, createdIds, deleteCount,
                 insertCount, latest, connVars>>

Next ==
  \/ Tick
  \/ \E p \in Procs, dto \in CreateInputs : CreateProduct(p, dto)
  \/ \E p \in Procs, id \in IdInputs : GetProductById(p, id)
  \/ \E p \in Procs : GetAllProducts(p)
  \/ \E p \in Procs, id \in IdInputs, args \in UpdateInputs : UpdateProductLookup(p, id, args)
  \/ \E p \in Procs : UpdateProductSave(p)
  \/ \E p \in Procs, id \in IdInputs : DeleteProductLookup(p, id)
  \/ \E p \in Procs : DeleteProductDelete(p)

Spec == Init /\ [][Next]_vars

\* the calls the interleaved callers make: creations of one valid product,
\* updates that each provide a single field, reads and deletions
ConcUpdateInputs ==
  { [NoArgs EXCEPT !.price = Some(0)], [NoArgs EXCEPT !.stock = Some(0)] }

ConcNext ==
  \/ Tick
  \/ \E p \in Procs : CreateProduct(p, ValidDto)
  \/ \E p \in Procs, id \in IdInputs : GetProductById(p, id)
  \/ \E p \in Procs : GetAllProducts(p)
  \/ \E p \in Procs, id \in IdInputs, args \in ConcUpdateInputs :
        UpdateProductLookup(p, id, args)
  \/ \E p \in Procs : UpdateProductSave(p)
  \/ \E p \in Procs, id \in IdInputs : DeleteProductLookup(p, id)
  \/ \E p \in Procs : DeleteProductDelete(p)

ConcSpec == ConcInit /\ [][ConcNext]_vars

\* an error of the database driver, raised by a repository call
DbError == <<"SQLITE_BUSY:", "database", "is", "locked">>

\* repository.create rejects: the await in createProduct throws
CreateProductThrows(p, dto) ==
  /\ CanBegin(p)
  /\ call' = [call EXCEPT ![p] =
       Done("create", 0, dto, DbError, Null, <<"create">>) @@ [thrown |-> DbError]]
  /\ ncalls' = ncalls + 1
  /\ UNCHANGED <<variant, clients, db, nextId, clock, createdIds, deleteCount,
                 insertCount, latest, connVars>>

\* repository.findById rejects: the await in getProductById throws, in
\* the call itself or in the lookup of updateProduct and deleteProduct
LookupThrows(p, op, id, args) ==
  /\ CanBegin(p)
  /\ call' = [call EXCEPT ![p] =
       Done(op, id, args, DbError, Null, <<"findById">>) @@ [thrown |-> DbError]]
  /\ ncalls' = ncalls + 1
  /\ UNCHANGED <<variant, clients, db, nextId, clock, createdIds, deleteCount,
                 insertCount, latest, connVars>>

\* repository.findAll rejects
GetAllProductsThrows(p) ==
  /\ CanBegin(p)
  /\ call' = [call EXCEPT ![p] =
       Done("getAll", 0, NoArgs, DbError, Null, <<"findAll">>) @@ [thrown |-> DbError]]
  /\ ncalls' = ncalls + 1
  /\ UNCHANGED <<variant, clients, db, nextId, clock, createdIds, deleteCount,
                 insertCount, latest, connVars>>

\* slip: the service catches the failure and answers with the merged entity
UpdateProductSaveSwallows(p) ==
  /\ call[p].pc = "update_save"
  /\ call' = [call EXCEPT ![p] =
       [call[p] EXCEPT !.pc = "done", !.trace = Append(call[p].trace, "update")]
       @@ [error |-> NoError, value |-> call[p].existingProduct,
           updateArg |-> call[p].existingProduct, thrown |-> DbError]]
  /\ UNCHANGED <<variant, clients, ncalls, db, nextId, clock, createdIds, deleteCount,
                 insertCount, latest, connVars>>

\* repository.update rejects after the lookup succeeded
UpdateProductSaveThrows(p) ==
  /\ call[p].pc = "update_save"
  /\ call' = [call EXCEPT ![p] =
       [call[p] EXCEPT !.pc = "done", !.trace = Append(call[p].trace, "update")]
       @@ [error |-> DbError, value |-> Null,
           updateArg |-> call[p].existingProduct, thrown |-> DbError]]
  /\ UNCHANGED <<variant, clients, ncalls, db, nextId, clock, createdIds, deleteCount,
                 insertCount, latest, connVars>>

\* repository.delete rejects after the lookup succeeded
DeleteProductDeleteThrows(p) ==
  /\ call[p].pc = "delete_delete"
  /\ call' = [call EXCEPT ![p] =
       [call[p] EXCEPT !.pc = "done", !.trace = Append(call[p].trace, "delete")]
       @@ [error |-> DbError, value |-> Null, thrown |-> DbError]]
  /\ UNCHANGED <<variant, clients, ncalls, db, nextId, clock, createdIds, deleteCount,
                 insertCount, latest, connVars>>

FaultCreateInputs == {ValidDto, [ValidDto EXCEPT !.price = -1]}

FaultUpdateInputs == ConcUpdateInputs \cup {[NoArgs EXCEPT !.price = Some(-1)]}

\* the service calls of one caller, each repository call of which may fail
FaultNext ==
  \/ Tick
  \/ \E p \in Procs, dto \in FaultCreateInputs : CreateProduct(p, dto)
  \/ \E p \in Procs, id \in IdInputs : GetProductById(p, id)
  \/ \E p \in Procs : GetAllProducts(p)
  \/ \E p \in Procs, id \in IdInputs, args \in FaultUpdateInputs :
        UpdateProductLookup(p, id, args)
  \/ \E p \in Procs : UpdateProductSave(p)
  \/ \E p \in Procs, id \in IdInputs : DeleteProductLookup(p, id)
  \/ \E p \in Procs : DeleteProductDelete(p)
  \/ \E p \in Procs, dto \in FaultCreateInputs : CreateProductThrows(p, dto)
  \/ \E p \in Procs, id \in IdInputs :
        \/ LookupThrows(p, "get", id, NoArgs)
        \/ LookupThrows(p, "delete", id, NoArgs)
        \/ \E args \in FaultUpdateInputs : LookupThrows(p, "update", id, args)
  \/ \E p \in Procs : GetAllProductsThrows(p)
  \/ \E p \in Procs : UpdateProductSaveThrows(p)
  \/ \E p \in Procs : DeleteProductDeleteThrows(p)

FaultSpec == Init /\ [][FaultNext]_vars

\* the entities handed to the repository port directly: a stored product
\* with fields changed (id set), or a new entity (no id yet)
UpdateEntities ==
  {MergeFields(db[k], args) : k \in DOMAIN db, args \in FaultUpdateInputs}
  \cup FaultCreateInputs

\* ProductRepository.update called on the port
RepositoryUpdate(p, product) ==
  /\ CanBegin(p)
  /\ LET r == update(product, clock)
     IN /\ r.error # NoError \/ HasId(product) \/ nextId <= MaxId
        /\ db' = r.db
        /\ nextId' = r.nextId
        /\ insertCount' = Inserted(r.db)
        /\ latest' = LatestAfter(r)
        /\ call' = [call EXCEPT ![p] =
             Done("repository.update", 0, product, r.error,
                  IF r.error = NoError THEN r.entity ELSE Null, <<"update">>)
             @@ [thrown |-> r.error, post |-> r.db]]
  /\ ncalls' = ncalls + 1
  /\ UNCHANGED <<variant, clients, clock, createdIds, deleteCount, connVars>>

RepoNext ==
  \/ Tick
  \/ \E p \in Procs : CreateProduct(p, ValidDto)
  \/ \E p \in Procs, product \in UpdateEntities : RepositoryUpdate(p, product)

RepoSpec == Init /\ [][RepoNext]_vars

\* right-typed create inputs: names empty, blank, short, of the longest
\* allowed length and one longer; prices and stocks negative, zero,
\* fractional and whole
ValidatorInputs ==
  [name : {<<>>, <<" ">>, <<"a">>, [i \in 1..MaxNameLength |-> "a"], LongName},
   description : {<<>>, <<"d">>},
   price : {-1, 0, 1, Scale},
   stock : {-Scale, 0, 1, Scale}]

\* one input given to both validators: error is what Product.validate
\* raises, value the errors array of validateCreateProduct
ValidateBoth(p, body) ==
  /\ CanBegin(p)
  /\ call' = [call EXCEPT ![p] =
       Done("validate", 0, body, validate(body), validateCreateProduct(body),
            <<"validate", "validateCreateProduct">>)]
  /\ ncalls' = ncalls + 1
  /\ UNCHANGED <<variant, clients, db, nextId, clock, createdIds, deleteCount,
                 insertCount, latest, connVars>>

ValidatorNext == \E p \in Procs, body \in ValidatorInputs : ValidateBoth(p, body)

ValidatorSpec == Init /\ [][ValidatorNext]_vars

\* JSON values of a request body, with their typeof; a property the body
\* lacks reads as undefined
JsonUndefined == [type |-> "undefined"]
JsonNull == [type |-> "object"]
JsonString(s) == [type |-> "string", text |-> s]
JsonNumber(n) == [type |-> "number", num |-> n]

\* !x
Falsy(x) ==
  \/ x.type = "undefined"
  \/ x = JsonNull
  \/ x.type = "string" /\ x.text = <<>>
  \/ x.type = "number" /\ x.num = 0

\* slip: stops at the first violated field
validateCreateProductErrorsFirstOnly(body) ==
  IF Falsy(body.name) \/ body.name.type # "string" \/ Len(trim(body.name.text)) = 0
    THEN << <<"Name", "is", "required", "and", "must", "be", "a",
              "non-empty", "string">> >>
  ELSE IF body.description = JsonUndefined \/ body.description.type # "string"
    THEN << <<"Description", "is", "required", "and", "must", "be", "a",
              "string">> >>
  ELSE IF body.price = JsonUndefined \/ body.price.type # "number" \/ body.price.num < 0
    THEN << <<"Price", "is", "required", "and", "must", "be", "a",
              "non-negative", "number">> >>
  ELSE IF \/ body.stock = JsonUndefined \/ body.stock.type # "number"
          \/ body.stock.num < 0 \/ ~IsInteger(body.stock.num)
    THEN << <<"Stock", "is", "required", "and", "must", "be", "a",
              "non-negative", "integer">> >>
  ELSE <<>>

\* the errors array validateCreateProduct builds from any JSON body
validateCreateProductErrors(body) ==
  (IF Falsy(body.name) \/ body.name.type # "string" \/ Len(trim(body.name.text)) = 0
     THEN << <<"Name", "is", "required", "and", "must", "be", "a",
               "non-empty", "string">> >>
     ELSE <<>>)
  \o (IF body.description = JsonUndefined \/ body.description.type # "string"
        THEN << <<"Description", "is", "required", "and", "must", "be", "a",
                  "string">> >>
        ELSE <<>>)
  \o (IF body.price = JsonUndefined \/ body.price.type # "number" \/ body.price.num < 0
        THEN << <<"Price", "is", "required", "and", "must", "be", "a",
                  "non-negative", "number">> >>
        ELSE <<>>)
  \o (IF \/ body.stock = JsonUndefined \/ body.stock.type # "number"
          \/ body.stock.num < 0 \/ ~IsInteger(body.stock.num)
        THEN << <<"Stock", "is", "required", "and", "must", "be", "a",
                  "non-negative", "integer">> >>
        ELSE <<>>)

\* what a middleware or handler did with the request: the responses it
\* sent and the times it called next
Responded(status, payload) == [responses |-> << [status |-> status, body |-> payload] >>, nexts |-> 0]
CalledNext == [responses |-> <<>>, nexts |-> 1]

\* request bodies of POST: each field missing, null, of the wrong type, or
\* a string or number of each kind the validator distinguishes
JsonCreateBodies ==
  [name : {JsonUndefined, JsonNull, JsonNumber(1), JsonString(<<>>),
           JsonString(<<" ">>), JsonString(<<"a">>)},
   description : {JsonUndefined, JsonNumber(0), JsonString(<<>>), JsonString(<<"d">>)},
   price : {JsonUndefined, JsonString(<<"1">>), JsonNumber(-1), JsonNumber(0), JsonNumber(1)},
   stock : {JsonUndefined, JsonString(<<"1">>), JsonNumber(-Scale), JsonNumber(0),
            JsonNumber(1), JsonNumber(Scale)}]

\* the POST validator run on a request
ValidateCreateRequest(p, body) ==
  /\ CanBegin(p)
  /\ LET errors == validateCreateProductErrors(body)
     IN call' = [call EXCEPT ![p] =
          Done("validateCreateProduct", 0, body, NoError, Null,
               <<"validateCreateProduct">>)
          @@ (IF Len(errors) > 0 THEN Responded(400, errors) ELSE CalledNext)]
  /\ ncalls' = ncalls + 1
  /\ UNCHANGED <<variant, clients, db, nextId, clock, createdIds, deleteCount,
                 insertCount, latest, connVars>>

MiddlewareNext ==
  \E p \in Procs, body \in JsonCreateBodies : ValidateCreateRequest(p, body)

MiddlewareSpec == Init /\ [][MiddlewareNext]_vars

\* slip: no integrality test on stock
validateUpdateProductErrorsNoInteger(body) ==
  (IF body.name # JsonUndefined
        /\ (body.name.type # "string" \/ Len(trim(body.name.text)) = 0)
     THEN << <<"Name", "must", "be", "a", "non-empty", "string", "if",
               "provided">> >>
     ELSE <<>>)
  \o (IF body.description # JsonUndefined /\ body.description.type # "string"
        THEN << <<"Description", "must", "be", "a", "string", "if", "provided">> >>
        ELSE <<>>)
  \o (IF body.price # JsonUndefined
           /\ (body.price.type # "number" \/ body.price.num < 0)
        THEN << <<"Price", "must", "be", "a", "non-negative", "number", "if",
                  "provided">> >>
        ELSE <<>>)
  \o (IF body.stock # JsonUndefined
           /\ (body.stock.type # "number" \/ body.stock.num < 0)
        THEN << <<"Stock", "must", "be", "a", "non-negative", "integer", "if",
                  "provided">> >>
        ELSE <<>>)

\* the errors array validateUpdateProduct builds from any JSON body
validateUpdateProductErrors(body) ==
  (IF body.name # JsonUndefined
        /\ (body.name.type # "string" \/ Len(trim(body.name.text)) = 0)
     THEN << <<"Name", "must", "be", "a", "non-empty", "string", "if",
               "provided">> >>
     ELSE <<>>)
  \o (IF body.description # JsonUndefined /\ body.description.type # "string"
        THEN << <<"Description", "must", "be", "a", "string", "if", "provided">> >>
        ELSE <<>>)
  \o (IF body.price # JsonUndefined
           /\ (body.price.type # "number" \/ body.price.num < 0)
        THEN << <<"Price", "must", "be", "a", "non-negative", "number", "if",
                  "provided">> >>
        ELSE <<>>)
  \o (IF body.stock # JsonUndefined
           /\ (\/ body.stock.type # "number" \/ body.stock.num < 0
               \/ ~IsInteger(body.stock.num))
        THEN << <<"Stock", "must", "be", "a", "non-negative", "integer", "if",
                  "provided">> >>
        ELSE <<>>)

\* the :id texts of the URLs
RequestIds == {ToString(i) : i \in 1..MaxId} \cup {MustId, "must"}

\* request bodies of PUT
JsonUpdateBodies ==
  [name : {JsonUndefined, JsonNull, JsonString(<<>>), JsonString(<<"b">>),
           JsonString(LongName)},
   description : {JsonUndefined, JsonNumber(0)},
   price : {JsonUndefined, JsonNumber(-1), JsonNumber(0)},
   stock : {JsonUndefined, JsonNumber(1), JsonNumber(0)}]

\* the PUT validator run on a request
ValidateUpdateRequest(p, body) ==
  /\ CanBegin(p)
  /\ LET errors == validateUpdateProductErrors(body)
     IN call' = [call EXCEPT ![p] =
          Done("validateUpdateProduct", 0, body, NoError, Null,
               <<"validateUpdateProduct">>)
          @@ (IF Len(errors) > 0 THEN Responded(400, errors) ELSE CalledNext)]
  /\ ncalls' = ncalls + 1
  /\ UNCHANGED <<variant, clients, db, nextId, clock, createdIds, deleteCount,
                 insertCount, latest, connVars>>

\* the arguments the controller takes from a body the validator let pass
ControllerArgs(body) ==
  UpdateArgs(IF body.name = JsonUndefined THEN Undefined ELSE Some(body.name.text),
             IF body.description = JsonUndefined THEN Undefined
               ELSE Some(body.description.text),
             IF body.price = JsonUndefined THEN Undefined ELSE Some(body.price.num),
             IF body.stock = JsonUndefined THEN Undefined ELSE Some(body.stock.num))

\* PUT /:id: validateProductId, validateUpdateProduct, then the controller's
\* updateProduct; products come from POST requests that passed its validator
PutNext ==
  \/ \E p \in Procs :
        validateCreateProduct(ValidDto) = <<>> /\ CreateProduct(p, ValidDto)
  \/ \E p \in Procs, body \in JsonUpdateBodies : ValidateUpdateRequest(p, body)
  \/ \E p \in Procs, text \in RequestIds, body \in JsonUpdateBodies :
        /\ validateProductId(text)
        /\ validateUpdateProductErrors(body) = <<>>
        /\ UpdateProductLookup(p, ControllerId(text), ControllerArgs(body))
  \/ \E p \in Procs : UpdateProductSave(p)

PutSpec == Init /\ [][PutNext]_vars

\* HTTP requests: the bodies of POST and PUT

RequestCreateBodies ==
  {ValidDto, [ValidDto EXCEPT !.name = LongName], [ValidDto EXCEPT !.price = -1],
   [ValidDto EXCEPT !.stock = 1]}

RequestUpdateBodies ==
  ConcUpdateInputs
  \cup {[NoArgs EXCEPT !.name = Some(LongName)], [NoArgs EXCEPT !.price = Some(-1)]}

\* the routes: the validators run before the controller's handler, which
\* calls the service
HttpNext ==
  \/ Tick
  \/ \E p \in Procs, body \in RequestCreateBodies :
        validateCreateProduct(body) = <<>> /\ CreateProduct(p, body)
  \/ \E p \in Procs : GetAllProducts(p)
  \/ \E p \in Procs, text \in RequestIds :
        validateProductId(text) /\ GetProductById(p, ControllerId(text))
  \/ \E p \in Procs, text \in RequestIds, body \in RequestUpdateBodies :
        /\ validateProductId(text)
        /\ validateUpdateProduct(body) = <<>>
        /\ UpdateProductLookup(p, ControllerId(text), body)
  \/ \E p \in Procs : UpdateProductSave(p)
  \/ \E p \in Procs, text \in RequestIds :
        validateProductId(text) /\ DeleteProductLookup(p, ControllerId(text))
  \/ \E p \in Procs : DeleteProductDelete(p)

HttpSpec == ConcInit /\ [][HttpNext]_vars

(***************************************************************************)
(* DatabaseConnection: getDataSource, getExistingDataSource, close         *)
(***************************************************************************)
\* frame of the product service's state
serviceVars ==
  <<variant, clients, db, nextId, clock, createdIds, deleteCount, insertCount, latest>>

\* new DataSource({...}): not initialized, never destroyed
NewDataSource == [isInitialized |-> FALSE, destroys |-> 0]

\* !DatabaseConnection.dataSource
NoDataSource == dataSource = 0

NotInitializedMessage ==
  <<"DataSource", "not", "initialized.", "Call", "getDataSource()", "first.">>

\* what a call remembers of the connection at its start
ConnBegun ==
  [closedBefore |-> \E i \in DOMAIN dataSources : dataSources[i].destroys > 0,
   readyBefore |-> ~NoDataSource /\ dataSources[dataSource].isInitialized]

\* a finished DatabaseConnection call: value is the DataSource returned
\* (0: none), initialized its isInitialized at the return
ConnDone(op, error, value, sources) ==
  [pc |-> "done", op |-> op, error |-> error, value |-> value,
   initialized |-> value # 0 /\ sources[value].isInitialized]

\* getDataSource up to its await: builds the DataSource when the static
\* field is empty and starts initialize(), else returns the field at once
GetDataSource(p) ==
  /\ CanBegin(p)
  /\ IF NoDataSource
       THEN /\ dataSources' = Append(dataSources, NewDataSource)
            /\ dataSource' = Len(dataSources) + 1
            /\ call' = [call EXCEPT ![p] =
                 [pc |-> "initialize", op |-> "getDataSource",
                  ds |-> Len(dataSources) + 1] @@ ConnBegun]
       ELSE /\ call' = [call EXCEPT ![p] =
                 ConnDone("getDataSource", NoError, dataSource, dataSources)
                 @@ ConnBegun]
            /\ UNCHANGED connVars
  /\ ncalls' = ncalls + 1
  /\ UNCHANGED serviceVars

\* initialize() resolves: getDataSource returns the static field
InitializeResolves(p) ==
  /\ call[p].pc = "initialize"
  /\ dataSources' = [dataSources EXCEPT ![call[p].ds].isInitialized = TRUE]
  /\ call' = [call EXCEPT ![p] =
       ConnDone("getDataSource", NoError, dataSource, dataSources') @@ call[p]]
  /\ UNCHANGED <<dataSource, ncalls, serviceVars>>

\* initialize() rejects: getDataSource throws, the static field stays set
InitializeRejects(p) ==
  /\ call[p].pc = "initialize"
  /\ call' = [call EXCEPT ![p] =
       ConnDone("getDataSource", DbError, 0, dataSources) @@ call[p]]
  /\ UNCHANGED <<connVars, ncalls, serviceVars>>

GetExistingDataSource(p) ==
  /\ CanBegin(p)
  /\ call' = [call EXCEPT ![p] =
       (IF NoDataSource \/ ~dataSources[dataSource].isInitialized
          THEN ConnDone("getExistingDataSource", NotInitializedMessage, 0, dataSources)
          ELSE ConnDone("getExistingDataSource", NoError, dataSource, dataSources))
       @@ ConnBegun]
  /\ ncalls' = ncalls + 1
  /\ UNCHANGED <<connVars, serviceVars>>

\* close up to its await: starts destroy() on an initialized DataSource
Close(p) ==
  /\ CanBegin(p)
  /\ call' = [call EXCEPT ![p] =
       (IF ~NoDataSource /\ dataSources[dataSource].isInitialized
          THEN [pc |-> "destroy", op |-> "close", ds |-> dataSource]
          ELSE ConnDone("close", NoError, 0, dataSources))
       @@ ConnBegun]
  /\ ncalls' = ncalls + 1
  /\ UNCHANGED <<connVars, serviceVars>>

\* destroy() settles: it closes an initialized DataSource, and rejects
\* when another close has destroyed it in the meantime
DestroySettles(p) ==
  /\ call[p].pc = "destroy"
  /\ IF dataSources[call[p].ds].isInitialized
       THEN /\ dataSources' = [dataSources EXCEPT
                 ![call[p].ds] = [isInitialized |-> FALSE, destroys |-> @.destroys + 1]]
            /\ call' = [call EXCEPT ![p] =
                 ConnDone("close", NoError, 0, dataSources') @@ call[p]]
       ELSE /\ call' = [call EXCEPT ![p] =
                 ConnDone("close", DbError, 0, dataSources) @@ call[p]]
            /\ UNCHANGED dataSources
  /\ UNCHANGED <<dataSource, ncalls, serviceVars>>

\* start-up: callers of getDataSource and getExistingDataSource
ConnNext ==
  \/ \E p \in Procs : GetDataSource(p)
  \/ \E p \in Procs : InitializeResolves(p)
  \/ \E p \in Procs : InitializeRejects(p)
  \/ \E p \in Procs : GetExistingDataSource(p)

ConnSpec == ConcInit /\ [][ConnNext]_vars

\* start-up and shutdown
ConnCloseNext ==
  \/ \E p \in Procs : GetDataSource(p)
  \/ \E p \in Procs : InitializeResolves(p)
  \/ \E p \in Procs : InitializeRejects(p)
  \/ \E p \in Procs : GetExistingDataSource(p)
  \/ \E p \in Procs : Close(p)
  \/ \E p \in Procs : DestroySettles(p)

ConnCloseSpec == ConcInit /\ [][ConnCloseNext]_vars

(***************************************************************************)
(* task 1: three ways to sum to n                                          *)
(***************************************************************************)
\* call-stack frames available to a recursion before RangeError is thrown
MaxStack == 128

\* arguments the functions are applied to
SumInputs == {0, 1, 2, 3, 10, 100}

Returns(v) == [kind |-> "return", value |-> v]

\* RangeError: Maximum call stack size exceeded
RangeError == [kind |-> "throw", value |-> 0]

SumStep(p, rec) ==
  /\ call' = [call EXCEPT ![p] = rec @@ call[p]]
  /\ UNCHANGED <<ncalls, connVars, serviceVars>>

\* a caller applies the three functions to the same n, starting with
\* sumToNA: let sum = 0; let i = 1
SumBegin(p) ==
  /\ CanBegin(p)
  /\ \E n \in SumInputs :
       call' = [call EXCEPT ![p] =
         [pc |-> "sumToNA", op |-> "sumToN", n |-> n, i |-> 1, sum |-> 0]]
  /\ ncalls' = ncalls + 1
  /\ UNCHANGED <<connVars, serviceVars>>

\* one turn of the loop: i <= n; sum += i; i++
sumToNALoop(p) ==
  /\ call[p].pc = "sumToNA"
  /\ call[p].i <= call[p].n
  /\ SumStep(p, [i |-> call[p].i + 1, sum |-> call[p].sum + call[p].i])

\* the loop ends: return sum
sumToNA(p) ==
  /\ call[p].pc = "sumToNA"
  /\ ~(call[p].i <= call[p].n)
  /\ SumStep(p, [pc |-> "sumToNB", A |-> Returns(call[p].sum)])

\* the product n * (n + 1) is even, so the division is exact
sumToNB(p) ==
  /\ call[p].pc = "sumToNB"
  /\ SumStep(p, [pc |-> "sumToNC",
                  B |-> Returns((call[p].n * (call[p].n + 1)) \div 2),
                  arg |-> call[p].n, frames |-> 1])

\* a frame whose argument is not 1 calls sumToNC(n - 1)
sumToNCRecurse(p) ==
  /\ call[p].pc = "sumToNC"
  /\ call[p].arg # 1
  /\ call[p].frames < MaxStack
  /\ SumStep(p, [arg |-> call[p].arg - 1, frames |-> call[p].frames + 1])

\* no frame is left for the recursive call: RangeError unwinds the stack
sumToNCOverflow(p) ==
  /\ call[p].pc = "sumToNC"
  /\ call[p].arg # 1
  /\ call[p].frames = MaxStack
  /\ SumStep(p, [pc |-> "done", C |-> RangeError])

\* if (n === 1) return 1
sumToNCBase(p) ==
  /\ call[p].pc = "sumToNC"
  /\ call[p].arg = 1
  /\ SumStep(p, [pc |-> "sumToNCReturn", result |-> 1])

\* the calling frame resumes: return n + sumToNC(n - 1)
sumToNCReturn(p) ==
  /\ call[p].pc = "sumToNCReturn"
  /\ call[p].frames > 1
  /\ SumStep(p, [arg |-> call[p].arg + 1, frames |-> call[p].frames - 1,
                  result |-> (call[p].arg + 1) + call[p].result])

\* the outermost frame returns
sumToNC(p) ==
  /\ call[p].pc = "sumToNCReturn"
  /\ call[p].frames = 1
  /\ SumStep(p, [pc |-> "done", C |-> Returns(call[p].result)])

SumNext ==
  \/ \E p \in Procs : SumBegin(p)
  \/ \E p \in Procs : sumToNALoop(p)
  \/ \E p \in Procs : sumToNA(p)
  \/ \E p \in Procs : sumToNB(p)
  \/ \E p \in Procs : sumToNCRecurse(p)
  \/ \E p \in Procs : sumToNCOverflow(p)
  \/ \E p \in Procs : sumToNCBase(p)
  \/ \E p \in Procs : sumToNCReturn(p)
  \/ \E p \in Procs : sumToNC(p)

SumSpec == Init /\ [][SumNext]_vars

\* the :id validator run on a request
ValidateIdRequest(p, text) ==
  /\ CanBegin(p)
  /\ call' = [call EXCEPT ![p] =
       Done("validateProductId", text, NoArgs, NoError, Null, <<"validateProductId">>)
       @@ (IF validateProductId(text) THEN CalledNext
           ELSE Responded(400, <<"Invalid", "product", "ID">>))]
  /\ ncalls' = ncalls + 1
  /\ UNCHANGED <<variant, clients, db, nextId, clock, createdIds, deleteCount,
                 insertCount, latest, connVars>>

ServiceOps == {"create", "get", "getAll", "update", "delete"}

\* the controller's handler has its service call settled and has not yet
\* answered
AwaitingResponse(p) ==
  /\ call[p].pc = "done"
  /\ call[p].op \in ServiceOps
  /\ "responses" \notin DOMAIN call[p]

\* slip: the catch block answers and forwards the error as well
HandlerRespondsAndForwards(p) ==
  /\ AwaitingResponse(p)
  /\ LET c == call[p]
         sent == << [status |-> IF c.op = "create" THEN 201 ELSE 200,
                     body |-> c.value] >>
         nexts == IF c.error = NoError THEN 0 ELSE 1
         handled == IF nexts = 1
                      THEN << [status |-> errorHandler(c.error), body |-> c.error] >>
                      ELSE <<>>
     IN call' = [call EXCEPT ![p] =
          c @@ [sent |-> sent, nexts |-> nexts, responses |-> sent \o handled]]
  /\ UNCHANGED <<variant, clients, ncalls, db, nextId, clock, createdIds, deleteCount,
                 insertCount, latest, connVars>>

\* the end of a controller handler: the success response of the try block,
\* or next(error) in the catch block, which errorHandler answers
HandlerResponds(p) ==
  /\ AwaitingResponse(p)
  /\ LET c == call[p]
         sent == IF c.error = NoError
                   THEN << [status |-> IF c.op = "create" THEN 201 ELSE 200,
                            body |-> c.value] >>
                   ELSE <<>>
         nexts == IF c.error = NoError THEN 0 ELSE 1
         handled == IF nexts = 1
                      THEN << [status |-> errorHandler(c.error),
                               body |-> IF errorHandler(c.error) = 500
                                          THEN <<"Internal", "server", "error">>
                                          ELSE c.error] >>
                      ELSE <<>>
     IN call' = [call EXCEPT ![p] =
          c @@ [sent |-> sent, nexts |-> nexts, responses |-> sent \o handled]]
  /\ UNCHANGED <<variant, clients, ncalls, db, nextId, clock, createdIds, deleteCount,
                 insertCount, latest, connVars>>

RouteCreateBodies ==
  {b \in JsonCreateBodies :
     /\ b.name \in {JsonUndefined, JsonString(<<"a">>)}
     /\ b.description = JsonString(<<"d">>)
     /\ b.price = JsonNumber(0)
     /\ b.stock \in {JsonNumber(1), JsonNumber(0)}}

RouteUpdateBodies ==
  {b \in JsonUpdateBodies :
     /\ b.name \in {JsonUndefined, JsonNull}
     /\ b.description = JsonUndefined
     /\ b.price = JsonUndefined
     /\ b.stock \in {JsonNumber(1), JsonNumber(0)}}

\* every route of the router: its validators, then the controller's
\* handler around the service call, then errorHandler
RouteNext ==
  \/ \E p \in Procs, text \in RequestIds :
        ~AwaitingResponse(p) /\ ValidateIdRequest(p, text)
  \/ \E p \in Procs, body \in RouteCreateBodies :
        ~AwaitingResponse(p) /\ ValidateCreateRequest(p, body)
  \/ \E p \in Procs, body \in RouteUpdateBodies :
        ~AwaitingResponse(p) /\ ValidateUpdateRequest(p, body)
  \/ \E p \in Procs, body \in {ValidDto, [ValidDto EXCEPT !.name = LongName]} :
        /\ ~AwaitingResponse(p)
        /\ validateCreateProduct(body) = <<>>
        /\ CreateProduct(p, body)
  \/ \E p \in Procs : ~AwaitingResponse(p) /\ GetAllProducts(p)
  \/ \E p \in Procs, text \in RequestIds :
        /\ ~AwaitingResponse(p)
        /\ validateProductId(text)
        /\ GetProductById(p, ControllerId(text))
  \/ \E p \in Procs, text \in RequestIds, body \in ConcUpdateInputs :
        /\ ~AwaitingResponse(p)
        /\ validateProductId(text)
        /\ validateUpdateProduct(body) = <<>>
        /\ UpdateProductLookup(p, ControllerId(text), body)
  \/ \E p \in Procs : UpdateProductSave(p)
  \/ \E p \in Procs, text \in RequestIds :
        /\ ~AwaitingResponse(p)
        /\ validateProductId(text)
        /\ DeleteProductLookup(p, ControllerId(text))
  \/ \E p \in Procs : DeleteProductDelete(p)
  \/ \E p \in Procs : HandlerResponds(p)

RouteSpec == ConcInit /\ [][RouteNext]_vars

(***************************************************************************)
(* Properties                                                              *)
(***************************************************************************)
OptionalFields == {"name", "description", "price", "stock"}

Finished(p, op) == call[p].pc = "done" /\ call[p].op = op

\* the call reached repository.update
Saved(p) == Finished(p, "update") /\ "updateArg" \in DOMAIN call[p]

\* C1: the entity updateProduct hands to repository.update has every
\* provided argument's value (0 and "" included) in its field, the fetched
\* value in every field whose argument was omitted, and is the complete
\* entity (id and both dates as fetched), never a sparse patch.
C1_UpdateHandsMergedWholeEntity ==
  \A p \in Procs :
    Saved(p) =>
      LET c == call[p]
      IN /\ DOMAIN c.updateArg = {"id"} \cup Columns
         /\ \A f \in OptionalFields :
              c.updateArg[f] =
                IF c.args[f] # Undefined THEN c.args[f][1] ELSE c.fetched[f]
         /\ \A f \in {"id", "createdAt", "updatedAt"} :
              c.updateArg[f] = c.fetched[f]

\* a provided 0 overwrote a non-zero price while the omitted name kept the
\* fetched value
C1_Witness ==
  \E p \in Procs :
    /\ Saved(p)
    /\ call[p].args.price = Some(0)
    /\ call[p].args.name = Undefined
    /\ call[p].fetched.price # 0
    /\ call[p].updateArg.price = 0
    /\ call[p].updateArg.name = call[p].fetched.name

PriceOnly(args) ==
  /\ args.price # Undefined
  /\ args.name = Undefined
  /\ args.description = Undefined
  /\ args.stock = Undefined

\* C2: after a successful updateProduct(id, price) with the other arguments
\* omitted, the stored product has the new price and differs from its state
\* before the call in nothing but price and updatedAt; every other stored
\* product is as before and no product appeared or disappeared.
C2_PriceUpdateFrame ==
  \A p \in Procs :
    (Finished(p, "update") /\ call[p].error = NoError /\ PriceOnly(call[p].args)) =>
      LET c == call[p]
          k == RowKey(c.id)
      IN /\ DOMAIN db = DOMAIN c.pre
         /\ db[k].price = c.args.price[1]
         /\ \A f \in {"id", "name", "description", "stock", "createdAt"} :
              db[k][f] = c.pre[k][f]
         /\ \A j \in DOMAIN db \ {k} : db[j] = c.pre[j]

\* a price-only update changed price and updatedAt of one of two products
C2_Witness ==
  \E p \in Procs :
    /\ Finished(p, "update") /\ call[p].error = NoError /\ PriceOnly(call[p].args)
    /\ Cardinality(DOMAIN db) = 2
    /\ db[RowKey(call[p].id)].price # call[p].pre[RowKey(call[p].id)].price
    /\ db[RowKey(call[p].id)].updatedAt # call[p].pre[RowKey(call[p].id)].updatedAt

\* C3: updateProduct on an id that is not stored fails with "Product with
\* ID {id} not found", never calls repository.update and changes no stored
\* product.
C3_UpdateMissingIdFails ==
  \A p \in Procs :
    (Finished(p, "update") /\ RowKey(call[p].id) \notin DOMAIN call[p].pre) =>
      /\ call[p].error = <<"Product", "with", "ID", IdText(call[p].id), "not", "found">>
      /\ call[p].trace = <<"findById">>
      /\ ~Saved(p)
      /\ db = call[p].pre

\* an update with arguments on a missing id failed while another product
\* was stored
C3_Witness ==
  \E p \in Procs :
    /\ Finished(p, "update")
    /\ RowKey(call[p].id) \notin DOMAIN call[p].pre
    /\ call[p].args # NoArgs
    /\ call[p].error # NoError
    /\ DOMAIN db # {}

\* the validation rules of the data model
ValidFields(r) ==
  /\ trim(r.name) # <<>>
  /\ Len(r.name) <= 255
  /\ r.price >= 0
  /\ r.stock >= 0
  /\ IsInteger(r.stock)

\* C4: every stored product satisfies the validation rules: name non-empty
\* after trimming and at most 255 characters, price >= 0, stock a
\* non-negative whole number.
C4_StoredProductsAreValid == \A k \in DOMAIN db : ValidFields(db[k])

\* C5: for valid inputs createProduct returns a product with exactly the
\* input values, an id no earlier createProduct returned, and createdAt
\* equal to updatedAt.
C5_CreateReturnsInputsFreshIdEqualDates ==
  \A p \in Procs :
    (Finished(p, "create") /\ ValidFields(call[p].args)) =>
      LET c == call[p]
      IN /\ c.error = NoError
         /\ \A f \in OptionalFields : c.value[f] = c.args[f]
         /\ c.value.id \notin c.createdBefore
         /\ c.value.createdAt = c.value.updatedAt

\* the inputs C6 names: name empty or whitespace-only, price < 0,
\* stock < 0, stock not a whole number
RejectedInput(dto) ==
  \/ trim(dto.name) = <<>>
  \/ dto.price < 0
  \/ dto.stock < 0
  \/ ~IsInteger(dto.stock)

\* C6: createProduct with such an input fails with a validation error and
\* leaves the stored products as they were.
C6_InvalidCreateFailsAndPersistsNothing ==
  \A p \in Procs :
    (Finished(p, "create") /\ RejectedInput(call[p].args)) =>
      /\ call[p].error # NoError
      /\ errorHandler(call[p].error) = 400
      /\ db = call[p].pre

\* C7: getProductById returns the stored product when the repository finds
\* one; otherwise the repository returns the absent value (null) and the
\* service fails with "Product with ID {id} not found"; this is the outcome
\* for every id no earlier createProduct returned.
C7_GetByIdFoundOrNotFound ==
  \A p \in Procs :
    Finished(p, "get") =>
      LET c == call[p]
          k == RowKey(c.id)
      IN /\ k \in DOMAIN c.pre => (c.error = NoError /\ c.value = c.pre[k])
         /\ k \notin DOMAIN c.pre =>
              /\ c.value = Null
              /\ c.error = <<"Product", "with", "ID", IdText(c.id), "not", "found">>
         /\ k \notin c.createdBefore => c.error # NoError
         /\ db = c.pre

\* a lookup of an id never created missed while another product was stored
C7_Witness ==
  \E p \in Procs :
    /\ Finished(p, "get")
    /\ RowKey(call[p].id) \notin call[p].createdBefore
    /\ call[p].pre # <<>>
    /\ call[p].value = Null
    /\ call[p].error # NoError

C9_SecondDeleteFails ==
  /\ \A k \in DOMAIN deleteCount : deleteCount[k] <= 1
  /\ \A p \in Procs :
       (Finished(p, "delete") /\ RowKey(call[p].id) \in call[p].deletedBefore) =>
         call[p].error \in
           {<<"Product", "with", "ID", IdText(call[p].id), "not", "found">>,
            <<"Failed", "to", "delete", "product", "with", "ID", IdText(call[p].id)>>}

\* a second delete of a deleted id has failed
C9_Witness ==
  \E p \in Procs :
    /\ Finished(p, "delete")
    /\ RowKey(call[p].id) \in call[p].deletedBefore
    /\ deleteCount[RowKey(call[p].id)] = 1
    /\ call[p].error # NoError

\* C10: deleteProduct calls repository.delete only after the lookup, and on
\* an id that is not stored it fails with the not-found error without
\* calling repository.delete.
C10_DeleteLooksUpFirst ==
  \A p \in Procs :
    (call[p].pc # "idle" /\ call[p].op = "delete") =>
      /\ call[p].trace \in {<<"findById">>, <<"findById", "delete">>}
      /\ (Finished(p, "delete") /\ RowKey(call[p].id) \notin DOMAIN call[p].pre) =>
           /\ call[p].trace = <<"findById">>
           /\ call[p].error = <<"Product", "with", "ID", IdText(call[p].id), "not", "found">>
           /\ db = call[p].pre

\* a delete of a missing id failed, with another product stored, and a
\* delete of a stored id went through lookup and delete
C10_Witness ==
  \E p \in Procs :
    /\ Finished(p, "delete")
    /\ RowKey(call[p].id) \notin DOMAIN call[p].pre
    /\ call[p].pre # <<>>
    /\ call[p].trace = <<"findById">>
    /\ call[p].error # NoError

\* the call began when its id was stored
BeganStored(p) == RowKey(call[p].id) \in DOMAIN call[p].pre

\* C11: of the deleteProduct calls racing for one stored row exactly one
\* succeeds: a deletion that began while its id was stored ends only once
\* some deletion of that id has succeeded, and no id is deleted more often
\* than it was inserted.  A deletion that fails fails with the not-found
\* error when its lookup came after the removal (only findById ran), and
\* with "Failed to delete product with ID {id}" when its lookup passed and
\* repository.delete returned false.
C11_RacingDeletesOneSucceeds ==
  /\ \A k \in DOMAIN deleteCount : deleteCount[k] <= insertCount[k]
  /\ \A p \in Procs : Finished(p, "delete") =>
        IF BeganStored(p)
          THEN /\ deleteCount[RowKey(call[p].id)] >= 1
               /\ call[p].trace = <<"findById", "delete">>
               /\ call[p].error \in
                    { NoError,
                      <<"Failed", "to", "delete", "product", "with", "ID",
                        IdText(call[p].id)>> }
          ELSE /\ call[p].trace = <<"findById">>
               /\ call[p].error =
                    <<"Product", "with", "ID", IdText(call[p].id), "not", "found">>

\* two deletions of one row inserted once, both begun while it was stored:
\* one succeeded, the other got the delete-failed error
C11_Witness ==
  \E p, q \in Procs :
    /\ p # q
    /\ Finished(p, "delete") /\ Finished(q, "delete")
    /\ call[p].id = call[q].id
    /\ BeganStored(p) /\ BeganStored(q)
    /\ insertCount[RowKey(call[p].id)] = 1
    /\ call[p].error = NoError
    /\ call[q].error = DeleteFailedMessage(call[q].id)

\* C12: getAllProducts lists every stored product newest first: a product
\* created later (ids are issued in creation order) stands before every
\* product created earlier, also when their createdAt values are equal,
\* whichever repository the service is wired to.
C12_GetAllNewestFirst ==
  \A p \in Procs : Finished(p, "getAll") =>
    LET products == call[p].value
    IN /\ {products[i].id : i \in DOMAIN products} = DOMAIN call[p].pre
       /\ \A i, j \in DOMAIN products : i < j => products[i].id > products[j].id

\* C13: an id moves only along nonexistent -> persisted -> deleted: it is
\* stored exactly when createProduct has issued it and no deleteProduct of
\* it has succeeded (updates keep it stored), and a row with that id is
\* inserted once only, so a deleted id is never stored again.
C13_IdLifecycle ==
  \A k \in DOMAIN insertCount :
    /\ k \in DOMAIN db <=> (k \in createdIds /\ deleteCount[k] = 0)
    /\ insertCount[k] <= 1

\* C14: updateProduct saves what it merged from its own earlier fetch, with
\* no lock, transaction or version check in between: whenever a save
\* succeeds, the stored product's fields are those of the entity the caller
\* merged at lookup time, whatever was written to the row since.  Two
\* interleaved single-field updates therefore both succeed and leave only
\* the later writer's field (C14_Witness).
C14_SaveWritesStaleMerge ==
  [][\A p \in Procs :
       (call[p].pc = "update_save" /\ call'[p].pc = "done"
          /\ call'[p].error = NoError)
       => \A f \in OptionalFields :
            db'[RowKey(call[p].id)][f] = call[p].existingProduct[f]]_vars

\* the lost update: both callers fetched the same product, one set the
\* price and one the stock, both returned success, and the stored product
\* has the new stock with the price that was fetched
C14_Witness ==
  \E p, q \in Procs :
    /\ p # q
    /\ Saved(p) /\ Saved(q)
    /\ call[p].id = call[q].id
    /\ call[p].error = NoError /\ call[q].error = NoError
    /\ call[p].fetched = call[q].fetched
    /\ call[p].args = [NoArgs EXCEPT !.price = Some(0)]
    /\ call[q].args = [NoArgs EXCEPT !.stock = Some(0)]
    /\ call[p].fetched.price # 0 /\ call[p].fetched.stock # 0
    /\ RowKey(call[p].id) \in DOMAIN db
    /\ db[RowKey(call[p].id)].stock = 0
    /\ db[RowKey(call[p].id)].price = call[p].fetched.price

\* C15: every stored product has updatedAt >= createdAt; a product that has
\* just been created has the two equal; and a write to a stored product
\* never moves its updatedAt backwards.
C15_UpdatedAtNotBeforeCreatedAt ==
  [][/\ \A k \in DOMAIN db' : db'[k].updatedAt >= db'[k].createdAt
     /\ \A k \in DOMAIN db' \ DOMAIN db : db'[k].updatedAt = db'[k].createdAt
     /\ \A k \in DOMAIN db' \cap DOMAIN db :
          db'[k].updatedAt >= db[k].updatedAt]_vars

ValidationErrors == {validate(dto) : dto \in CreateInputs} \ {NoError}

\* C17: the HTTP status of a finished call: 201 for a successful create
\* and 200 for any other success, 400 for a validation error raised by
\* Product.validate, 404 for the not-found error of the lookup whatever id
\* reached the service, and 500 for the delete-failed error.
C17_HttpStatusMapping ==
  \A p \in Procs : call[p].pc = "done" =>
    LET c == call[p]
    IN /\ c.error = NoError => HttpStatus(c) = IF c.op = "create" THEN 201 ELSE 200
       /\ c.error \in ValidationErrors => HttpStatus(c) = 400
       /\ c.op \in {"get", "update", "delete"} =>
            /\ c.error = NotFoundMessage(c.id) => HttpStatus(c) = 404
            /\ c.error = DeleteFailedMessage(c.id) => HttpStatus(c) = 500

\* what the entity or a repository call raised during the call
Thrown(c) == IF "thrown" \in DOMAIN c THEN c.thrown ELSE NoError

C19_RepositoryUpdateNeedsId ==
  \A p \in Procs : Finished(p, "repository.update") =>
    LET product == call[p].args
    IN IF ~HasId(product)
         THEN /\ call[p].error = <<"Product", "ID", "is", "required", "for", "update">>
              /\ call[p].post = call[p].pre
         ELSE validate(product) = NoError =>
              /\ call[p].error = NoError
              /\ product.id \in DOMAIN call[p].post
              /\ \A f \in {"id"} \cup OptionalFields :
                   /\ call[p].post[product.id][f] = product[f]
                   /\ call[p].value[f] = product[f]

\* C20: Product.validate and ProductValidator.validateCreateProduct accept
\* the same right-typed inputs: one raises no error exactly when the other
\* reports no violation.
C20_ValidatorsAgree ==
  \A p \in Procs : Finished(p, "validate") =>
    (call[p].error = NoError <=> call[p].value = <<>>)

\* C21: Product.validate fails fast in the order name required, name length
\* <= 255, price >= 0, stock >= 0 and integral: the error raised is the one
\* of the first condition in that order that the input violates, and there
\* is no error when the input violates none.
C21_ValidateFirstViolationInOrder ==
  \A p \in Procs : Finished(p, "validate") =>
    LET product == call[p].args
    IN call[p].error =
         IF product.name = <<>> \/ Len(trim(product.name)) = 0
           THEN <<"Product", "name", "is", "required">>
         ELSE IF Len(product.name) > 255
           THEN <<"Product", "name", "must", "not", "exceed", "255", "characters">>
         ELSE IF product.price < 0
           THEN <<"Product", "price", "must", "be", "greater", "than", "or",
                  "equal", "to", "0">>
         ELSE IF product.stock < 0 \/ ~IsInteger(product.stock)
           THEN <<"Product", "stock", "must", "be", "greater", "than", "or",
                  "equal", "to", "0">>
         ELSE NoError

\* the fields of a POST body that break their condition, as flags
NameViolated(body) ==
  ~(body.name.type = "string" /\ Len(trim(body.name.text)) > 0)
DescriptionViolated(body) == body.description.type # "string"
PriceViolated(body) == ~(body.price.type = "number" /\ body.price.num >= 0)
StockViolated(body) ==
  ~(body.stock.type = "number" /\ body.stock.num >= 0 /\ IsInteger(body.stock.num))

\* C22: validateCreateProduct collects every violation: when some field of
\* the body is violated it sends one 400 response whose errors hold exactly
\* one message for each violated field, in the order name, description,
\* price, stock, and does not call next; when no field is violated it sends
\* nothing and calls next once.
C22_CreateValidatorCollectsAll ==
  \A p \in Procs : Finished(p, "validateCreateProduct") =>
    LET body == call[p].args
        expected ==
          (IF NameViolated(body)
             THEN << <<"Name", "is", "required", "and", "must", "be", "a",
                       "non-empty", "string">> >> ELSE <<>>)
          \o (IF DescriptionViolated(body)
                THEN << <<"Description", "is", "required", "and", "must", "be",
                          "a", "string">> >> ELSE <<>>)
          \o (IF PriceViolated(body)
                THEN << <<"Price", "is", "required", "and", "must", "be", "a",
                          "non-negative", "number">> >> ELSE <<>>)
          \o (IF StockViolated(body)
                THEN << <<"Stock", "is", "required", "and", "must", "be", "a",
                          "non-negative", "integer">> >> ELSE <<>>)
    IN IF expected # <<>>
         THEN /\ call[p].responses = << [status |-> 400, body |-> expected] >>
              /\ call[p].nexts = 0
         ELSE /\ call[p].responses = <<>>
              /\ call[p].nexts = 1

\* a body with several violated fields was answered with several messages
C22_Witness ==
  \E p \in Procs :
    /\ Finished(p, "validateCreateProduct")
    /\ NameViolated(call[p].args) /\ StockViolated(call[p].args)
    /\ ~PriceViolated(call[p].args)
    /\ Len(call[p].responses) = 1
    /\ Len(call[p].responses[1].body) >= 2

\* C23: validateUpdateProduct treats every field as optional: a body it
\* lets pass has each provided field valid (name a string that is not empty
\* after trimming, description a string, price a number >= 0, stock a whole
\* number >= 0), a body with no field passes, and after any updates that
\* passed it and were applied by updateProduct every stored product still
\* meets the conditions of the create path (name not blank, price >= 0,
\* stock a whole number >= 0, and where the entity validates, name of at
\* most 255 characters).
C23_UpdateValidatorOptionalFields ==
  /\ \A p \in Procs : Finished(p, "validateUpdateProduct") =>
        LET body == call[p].args
        IN /\ call[p].nexts = 1 =>
                /\ call[p].responses = <<>>
                /\ body.name = JsonUndefined
                     \/ (body.name.type = "string" /\ Len(trim(body.name.text)) > 0)
                /\ body.description = JsonUndefined \/ body.description.type = "string"
                /\ body.price = JsonUndefined
                     \/ (body.price.type = "number" /\ body.price.num >= 0)
                /\ body.stock = JsonUndefined
                     \/ (body.stock.type = "number" /\ body.stock.num >= 0
                           /\ IsInteger(body.stock.num))
           /\ (\A f \in OptionalFields : body[f] = JsonUndefined) => call[p].nexts = 1
  /\ \A k \in DOMAIN db :
        /\ Len(trim(db[k].name)) > 0
        /\ db[k].price >= 0
        /\ db[k].stock >= 0 /\ IsInteger(db[k].stock)
        /\ variant = "numeric" => Len(db[k].name) <= 255

\* an update that passed the validator was applied to a stored product
C23_Witness ==
  \E p \in Procs :
    /\ Saved(p) /\ call[p].error = NoError
    /\ call[p].args.name = Some(<<"b">>)
    /\ call[p].args.stock = Some(0)
    /\ RowKey(call[p].id) \in DOMAIN db
    /\ db[RowKey(call[p].id)].name = <<"b">>
    /\ db[RowKey(call[p].id)].stock = 0
    /\ call[p].fetched.stock # 0

\* C24: an updateProduct call that fails, with not-found from its lookup or
\* with a validation error or any other failure raised by the save, leaves
\* the table as it was when the call began, although the fetched entity
\* had been changed in memory.
C24_FailedUpdateChangesNothing ==
  \A p \in Procs :
    Finished(p, "update") /\ call[p].error # NoError => db = call[p].pre

\* the save of an entity merged with a negative price was refused
C24_Witness ==
  \E p \in Procs :
    /\ Saved(p)
    /\ call[p].error \in ValidationErrors
    /\ call[p].updateArg.price < 0
    /\ call[p].updateArg # call[p].fetched
    /\ db[RowKey(call[p].id)] = call[p].fetched

\* C25: an update does not bring a deleted product back: when an
\* updateProduct(id) and a deleteProduct(id) that both looked the product
\* up while it was stored have finished, and the deletion succeeded, the
\* id is not stored and getProductById(id) fails with not-found.
C25_UpdateDoesNotResurrect ==
  \A p, q \in Procs :
    ( /\ p # q
      /\ Saved(p) /\ BeganStored(p)
      /\ Finished(q, "delete") /\ BeganStored(q) /\ call[q].error = NoError
      /\ call[p].id = call[q].id )
    => /\ RowKey(call[p].id) \notin DOMAIN db
       /\ getProductById(call[p].id).error =
            <<"Product", "with", "ID", IdText(call[p].id), "not", "found">>

\* C26: getAllProducts returns exactly the products created and not yet
\* deleted, each once, each with the field values that its creation or its
\* latest successful update returned.
C26_GetAllIsCreatedMinusDeleted ==
  \A p \in Procs : Finished(p, "getAll") =>
    LET products == call[p].value
        ids == {products[i].id : i \in DOMAIN products}
    IN /\ ids = call[p].createdBefore \ call[p].deletedBefore
       /\ Len(products) = Cardinality(ids)
       /\ \A i \in DOMAIN products :
            \A f \in OptionalFields : products[i][f] = latest[products[i].id][f]

\* a listing made after a creation and an update of the name
C26_Witness ==
  \E p \in Procs :
    /\ Finished(p, "getAll")
    /\ Len(call[p].value) = 1
    /\ call[p].value[1].name = <<"b">>
    /\ call[p].createdBefore = {call[p].value[1].id}

\* C27: every stage answers or passes on, never both: a validator has
\* either sent one 400 and not called next, or called next once and sent
\* nothing; a controller handler has either sent its one success response
\* (201 for create, 200 otherwise) or forwarded the error once; and for a
\* forwarded error errorHandler has sent exactly one response, with status
\* 400, 404 or 500.  A request that reached a controller therefore has
\* exactly one response.
C27_ExactlyOneResponse ==
  \A p \in Procs : "responses" \in DOMAIN call[p] =>
    LET c == call[p]
    IN IF c.op \in ServiceOps
         THEN /\ Len(c.sent) + c.nexts = 1
              /\ Len(c.responses) = 1
              /\ c.nexts = 0 =>
                   /\ c.error = NoError
                   /\ c.responses = c.sent
                   /\ c.responses[1].status = IF c.op = "create" THEN 201 ELSE 200
              /\ c.nexts = 1 =>
                   /\ c.error # NoError
                   /\ c.responses[1].status \in {400, 404, 500}
         ELSE /\ Len(c.responses) + c.nexts = 1
              /\ Len(c.responses) = 1 => c.responses[1].status = 400

\* a handler forwarded a not-found error and errorHandler answered 404
C27_Witness ==
  \E p \in Procs :
    /\ "responses" \in DOMAIN call[p]
    /\ call[p].op = "get"
    /\ call[p].nexts = 1
    /\ call[p].sent = <<>>
    /\ Len(call[p].responses) = 1
    /\ call[p].responses[1].status = 404

\* C28: getDataSource is a singleton accessor that hands out only a ready
\* connection: at most one DataSource is ever constructed, and every
\* DataSource a call returns is initialized when it is returned, also for
\* a call that starts while another awaits initialize() and for a call
\* made after initialize() failed.
C28_SingletonHandsOutReady ==
  /\ Len(dataSources) <= 1
  /\ \A p \in Procs :
       Finished(p, "getDataSource") /\ call[p].error = NoError
       => call[p].value # 0 /\ call[p].initialized

\* C29: getExistingDataSource returns the DataSource exactly when one is
\* initialized and otherwise throws "DataSource not initialized. Call
\* getDataSource() first." (before the first getDataSource has completed,
\* and after close()), and a getDataSource call made after close() returns
\* an initialized DataSource again.
C29_ExistingOnlyWhileInitialized ==
  \A p \in Procs :
    /\ Finished(p, "getExistingDataSource") =>
         IF call[p].readyBefore
           THEN call[p].error = NoError /\ call[p].initialized
           ELSE call[p].error =
                  <<"DataSource", "not", "initialized.", "Call",
                    "getDataSource()", "first.">>
    /\ Finished(p, "getDataSource") /\ call[p].closedBefore
         => call[p].error = NoError /\ call[p].initialized

RECURSIVE SumUpTo(_)
\* 1 + 2 + ... + n
SumUpTo(n) == IF n = 0 THEN 0 ELSE n + SumUpTo(n - 1)

\* C30: for every integer n >= 0 the three functions sumToNA, sumToNB and
\* sumToNC terminate and return the same value, the sum 1 + 2 + ... + n,
\* which is 5050 for n = 100.
C30_ThreeSumsAgree ==
  \A p \in Procs :
    Finished(p, "sumToN") /\ call[p].n >= 0 =>
      /\ call[p].A = [kind |-> "return", value |-> SumUpTo(call[p].n)]
      /\ call[p].B = call[p].A
      /\ call[p].C = call[p].A
      /\ call[p].n = 100 => call[p].A.value = 5050

====
